---- MODULE Spec2Model ----
(***************************************************************************)
(* A model of IronPyCompiler: runtime discovery (ironpycompiler/detect.py), *)
(* version objects (datatypes.py), process invocation (process.py) and the  *)
(* dependency analysis and response-file protocol (compiler.py).            *)
(*                                                                          *)
(* Python strings that the code parses are sequences of one-character       *)
(* strings; Python dicts are functions; a call's outcome is a record        *)
(* [ok |-> TRUE, val |-> v] for a return and [ok |-> FALSE, exc |-> class,  *)
(* msg |-> text] for a raise.                                               *)
(***************************************************************************)
EXTENDS Integers, Sequences, FiniteSets, TLC

\* Bound: the number of install candidates on the host, counted over the
\* children of both registry keys and the PATH directories that hold the
\* executable.
MaxCand == 2

Return(v) == [ok |-> TRUE, val |-> v]

Raise(e, m) == [ok |-> FALSE, exc |-> e, msg |-> m]

EmptyDict == << >>

\* d[k] = v on a dict (a later assignment to the same key overwrites).
DictSet(d, k, v) == [x \in DOMAIN d \cup {k} |-> IF x = k THEN v ELSE d[x]]

(***************************************************************************)
(* Strings and StrictVersion parsing (datatypes.HashableVersion).           *)
(***************************************************************************)
Digits == {"0", "1", "2", "3", "4", "5", "6", "7", "8", "9"}

Whitespace == {" ", "\n", "\r", "\t"}

DigitVal(c) ==
  CASE c = "0" -> 0 [] c = "1" -> 1 [] c = "2" -> 2 [] c = "3" -> 3
    [] c = "4" -> 4 [] c = "5" -> 5 [] c = "6" -> 6 [] c = "7" -> 7
    [] c = "8" -> 8 [] c = "9" -> 9

RECURSIVE LStrip(_)
LStrip(s) == IF s # <<>> /\ Head(s) \in Whitespace THEN LStrip(Tail(s)) ELSE s

RECURSIVE RStrip(_)
RStrip(s) ==
  IF s # <<>> /\ s[Len(s)] \in Whitespace
  THEN RStrip(SubSeq(s, 1, Len(s) - 1))
  ELSE s

\* str.strip()
Strip(s) == RStrip(LStrip(s))

\* The length of the longest prefix of s made of digits: what \d+ consumes.
RECURSIVE DigitRun(_)
DigitRun(s) ==
  IF s # <<>> /\ Head(s) \in Digits THEN 1 + DigitRun(Tail(s)) ELSE 0

\* string.atoi on a non-empty run of digits.
RECURSIVE Atoi(_)
Atoi(s) ==
  IF s = <<>> THEN 0
  ELSE 10 * Atoi(SubSeq(s, 1, Len(s) - 1)) + DigitVal(s[Len(s)])

Drop(s, n) == SubSeq(s, n + 1, Len(s))

\* StrictVersion.parse: the pattern ^(\d+)\.(\d+)(\.(\d+))?([ab](\d+))?$ ;
\* a missing patch is 0, a missing prerelease is None (here << >>).
\* A string the pattern rejects raises ValueError.  The pattern is matched
\* left to right, one group per operator.

\* $ : nothing may follow.
MatchEnd(rest, version, prerelease) ==
  IF rest = <<>> THEN Return([version |-> version, prerelease |-> prerelease])
  ELSE Raise("ValueError", "invalid version number")

\* ([ab](\d+))?
MatchPrerelease(rest, version) ==
  IF Len(rest) >= 2 /\ rest[1] \in {"a", "b"} /\ rest[2] \in Digits
  THEN MatchEnd(Drop(rest, 1 + DigitRun(Tail(rest))), version,
                << rest[1], Atoi(SubSeq(rest, 2, 1 + DigitRun(Tail(rest)))) >>)
  ELSE MatchEnd(rest, version, << >>)

\* (\.(\d+))?
MatchPatch(rest, maj, min) ==
  IF Len(rest) >= 2 /\ rest[1] = "." /\ rest[2] \in Digits
  THEN MatchPrerelease(Drop(rest, 1 + DigitRun(Tail(rest))),
                       << maj, min, Atoi(SubSeq(rest, 2, 1 + DigitRun(Tail(rest)))) >>)
  ELSE MatchPrerelease(rest, << maj, min, 0 >>)

\* (\d+) after the first dot
MatchMinor(rest, maj) ==
  IF DigitRun(rest) > 0
  THEN MatchPatch(Drop(rest, DigitRun(rest)), maj, Atoi(SubSeq(rest, 1, DigitRun(rest))))
  ELSE Raise("ValueError", "invalid version number")

\* ^(\d+)\.
HashableVersion(vstring) ==
  IF DigitRun(vstring) > 0 /\ Len(vstring) > DigitRun(vstring)
     /\ vstring[DigitRun(vstring) + 1] = "."
  THEN MatchMinor(Drop(vstring, DigitRun(vstring) + 1),
                  Atoi(SubSeq(vstring, 1, DigitRun(vstring))))
  ELSE Raise("ValueError", "invalid version number")

major(v) == v.version[1]

minor(v) == v.version[2]

patch(v) == v.version[3]

\* The reduced two-part key of a version.
major_minor(v) == [mm |-> << v.version[1], v.version[2] >>]

\* Python 2 cmp() on two tuples of integers of equal length.
RECURSIVE CmpTuple(_, _)
CmpTuple(a, b) ==
  IF a = <<>> THEN 0
  ELSE IF Head(a) < Head(b) THEN -1
  ELSE IF Head(a) > Head(b) THEN 1
  ELSE CmpTuple(Tail(a), Tail(b))

\* cmp() on two prerelease tuples (letter, number).
CmpPre(p, q) ==
  IF p[1] # q[1] THEN (IF p[1] = "a" THEN -1 ELSE 1)
  ELSE IF p[2] < q[2] THEN -1
  ELSE IF p[2] > q[2] THEN 1
  ELSE 0

\* StrictVersion.__cmp__, which HashableVersion inherits.
VersionCmp(a, b) ==
  LET compare == CmpTuple(a.version, b.version)
  IN IF compare # 0 THEN compare
     ELSE IF a.prerelease = <<>> /\ b.prerelease = <<>> THEN 0
     ELSE IF a.prerelease # <<>> /\ b.prerelease = <<>> THEN -1
     ELSE IF a.prerelease = <<>> /\ b.prerelease # <<>> THEN 1
     ELSE CmpPre(a.prerelease, b.prerelease)

\* sorted(S, reverse=True) on a collection of versions.
RECURSIVE SortedReverse(_)
SortedReverse(S) ==
  IF S = {} THEN <<>>
  ELSE LET top == CHOOSE v \in S : \A w \in S : VersionCmp(v, w) >= 0
       IN <<top>> \o SortedReverse(S \ {top})

(***************************************************************************)
(* The host: what the registry, PATH and the file system hold.  Each        *)
(* directory of the universe holds (or lacks) an executable of the name     *)
(* looked for, with a fixed behaviour when it is run with -c "print pv()".  *)
(***************************************************************************)
Dirs == {"dA", "dB", "dC", "dD", "dE", "dF", "dG", "dN"}

\* present: glob finds the executable in the directory; xok: os.access says
\* it is executable; launch: subprocess.Popen can start it; stdout: what it
\* prints (stdout and stderr combined); returncode: its exit status.
ExeAt(dir) ==
  CASE dir = "dA" -> [present |-> TRUE, xok |-> TRUE, launch |-> TRUE,
                      stdout |-> <<"2", ".", "7", ".", "3", "\n">>, returncode |-> 0]
    [] dir = "dB" -> [present |-> TRUE, xok |-> TRUE, launch |-> TRUE,
                      stdout |-> <<"2", ".", "7", ".", "5", "\n">>, returncode |-> 0]
    [] dir = "dC" -> [present |-> TRUE, xok |-> TRUE, launch |-> TRUE,
                      stdout |-> <<"2", ".", "6", ".", "9", "\r", "\n">>, returncode |-> 0]
    [] dir = "dD" -> [present |-> TRUE, xok |-> TRUE, launch |-> TRUE,
                      stdout |-> <<"3", ".", "1", "\n">>, returncode |-> 0]
    [] dir = "dE" -> [present |-> TRUE, xok |-> TRUE, launch |-> FALSE,
                      stdout |-> <<>>, returncode |-> 0]
    [] dir = "dF" -> [present |-> TRUE, xok |-> TRUE, launch |-> TRUE,
                      stdout |-> <<"h", "i", " ", "2", ".", "7", "\n">>, returncode |-> 1]
    [] dir = "dG" -> [present |-> TRUE, xok |-> TRUE, launch |-> TRUE,
                      stdout |-> <<"2", ".", "7", ".", "3", "\n">>, returncode |-> 0]
    [] dir = "dN" -> [present |-> FALSE, xok |-> FALSE, launch |-> FALSE,
                      stdout |-> <<>>, returncode |-> 0]

\* The candidate registry key paths, in the order they are tried.
REGKEYS == <<"SOFTWARE\\IronPython", "SOFTWARE\\Wow6432Node\\IronPython">>

\* platform.python_version() of the interpreter running the tool.
HostVersions ==
  { <<"2", ".", "7", ".", "3">>, <<"2", ".", "7", ".", "0">>,
    <<"2", ".", "6", ".", "0">>, <<"3", ".", "4", ".", "0">> }

VARIABLES
  winreg,      \* whether "import _winreg" succeeds on this host
  registry,    \* per candidate key: whether it exists, and its children's install directories
  path_env,    \* the directories of os.environ["PATH"], in order
  det          \* the last detection call: [op, detailed, host, out]

detVars == << winreg, registry, path_env, det >>

(***************************************************************************)
(* process.execute_ipy                                                      *)
(***************************************************************************)
\* Mutant: a non-zero return code is raised, as subprocess.check_output does.
execute_ipy_CheckOutput(proc) ==
  IF ~proc.launch THEN Raise("OSError", "cannot start")
  ELSE IF proc.returncode # 0 THEN Raise("CalledProcessError", "non-zero exit status")
  ELSE Return(<< proc.stdout, proc.returncode >>)

\* subprocess.Popen raises OSError when the executable cannot be started;
\* otherwise communicate() blocks until exit and the pair (combined output,
\* return code) is returned, whatever the return code.
execute_ipy(proc) ==
  IF ~proc.launch THEN Raise("OSError", "cannot start")
  ELSE Return(<< proc.stdout, proc.returncode >>)

(***************************************************************************)
(* detect.validate_pythonexe                                                *)
(***************************************************************************)
\* HashableVersion(ipy_ver_str) raising ValueError is turned into the
\* validation error; otherwise the version is returned.
ValidateVersion(ipy_ver) ==
  IF ~ipy_ver.ok
  THEN Raise("IronPythonValidationError", "is not a valid IronPython executable")
  ELSE Return(ipy_ver.val)

\* r: the outcome of execute_ipy.  EnvironmentError (OSError is one) is
\* turned into the validation error; otherwise the output is stripped and
\* parsed.  The return code is not looked at.
ValidateOutput(r) ==
  IF ~r.ok THEN Raise("IronPythonValidationError", "is not available")
  ELSE ValidateVersion(HashableVersion(Strip(r.val[1])))

validate_pythonexe(dir) == ValidateOutput(execute_ipy(ExeAt(dir)))

(***************************************************************************)
(* detect.search_ipy_reg                                                    *)
(***************************************************************************)
\* The loop over regkeys: the index of the first key _winreg.OpenKey can
\* open, or 0 (None) when every OpenKey raised WindowsError.
RECURSIVE OpenFirstKey(_, _)
OpenFirstKey(regkeys, i) ==
  IF i > Len(regkeys) THEN 0
  ELSE IF registry[i].exists THEN i
  ELSE OpenFirstKey(regkeys, i + 1)

\* Mutant: a key that is already in the map keeps its directory.
StoreCandidate_KeepFirst(foundipys, detailed, ipy_dir, ipy_ver) ==
  IF ~ipy_ver.ok THEN foundipys
  ELSE LET key == IF detailed THEN ipy_ver.val ELSE major_minor(ipy_ver.val)
       IN IF key \in DOMAIN foundipys THEN foundipys
          ELSE DictSet(foundipys, key, ipy_dir)

\* The try/except/else around validate_pythonexe: a validation error skips
\* the candidate, a version is stored under its key (overwriting).
StoreCandidate(foundipys, detailed, ipy_dir, ipy_ver) ==
  IF ~ipy_ver.ok THEN foundipys
  ELSE DictSet(foundipys,
               IF detailed THEN ipy_ver.val ELSE major_minor(ipy_ver.val),
               ipy_dir)

\* Mutant: the first validation error ends the enumeration.
RECURSIVE RegScan_StopAtFailure(_, _, _)
RegScan_StopAtFailure(foundvers, detailed, foundipys) ==
  IF foundvers = <<>> \/ ~validate_pythonexe(Head(foundvers)).ok THEN foundipys
  ELSE RegScan_StopAtFailure(Tail(foundvers), detailed,
         StoreCandidate(foundipys, detailed, Head(foundvers),
                        validate_pythonexe(Head(foundvers))))

\* The loop over foundvers: each child's install directory is validated.
RECURSIVE RegScan(_, _, _)
RegScan(foundvers, detailed, foundipys) ==
  IF foundvers = <<>> THEN foundipys
  ELSE RegScan(Tail(foundvers), detailed,
         StoreCandidate(foundipys, detailed, Head(foundvers),
                        validate_pythonexe(Head(foundvers))))

\* if len(foundipys) == 0: raise ... else return foundipys
RegResult(foundipys) ==
  IF Cardinality(DOMAIN foundipys) = 0
  THEN Raise("IronPythonDetectionError", "Could not find any IronPython executable.")
  ELSE Return(foundipys)

\* if ipybasekey is None: ipybasekey.Close() is called on None before the
\* raise statement is reached.
RegEnumerate(ipybasekey, detailed) ==
  IF ipybasekey = 0
  THEN Raise("AttributeError", "'NoneType' object has no attribute 'Close'")
  ELSE RegResult(RegScan(registry[ipybasekey].children, detailed, EmptyDict))

search_ipy_reg(regkeys, detailed) ==
  IF ~winreg
  THEN Raise("IronPythonDetectionError",
             "Cannot import a module for accessing the Windows registry.")
  ELSE RegEnumerate(OpenFirstKey(regkeys, 1), detailed)

(***************************************************************************)
(* detect.search_ipy_env                                                    *)
(***************************************************************************)
\* The directories of PATH where glob matches the executable and os.access
\* reports it executable, in PATH order.
MatchingDirs(paths) ==
  SelectSeq(paths, LAMBDA d : ExeAt(d).present /\ ExeAt(d).xok)

\* The loop over ipydirpaths.
RECURSIVE EnvScan(_, _, _)
EnvScan(ipydirpaths, detailed, foundipys) ==
  IF ipydirpaths = <<>> THEN foundipys
  ELSE EnvScan(Tail(ipydirpaths), detailed,
         StoreCandidate(foundipys, detailed, Head(ipydirpaths),
                        validate_pythonexe(Head(ipydirpaths))))

EnvResult(foundipys) ==
  IF Cardinality(DOMAIN foundipys) = 0
  THEN Raise("IronPythonDetectionError", "exists but is not the IronPython executable.")
  ELSE Return(foundipys)

EnvEnumerate(ipydirpaths, detailed) ==
  IF Len(ipydirpaths) = 0
  THEN Raise("IronPythonDetectionError", "Could not find any executable file.")
  ELSE EnvResult(EnvScan(ipydirpaths, detailed, EmptyDict))

search_ipy_env(detailed) == EnvEnumerate(MatchingDirs(path_env), detailed)

(***************************************************************************)
(* detect.search_ipy                                                        *)
(***************************************************************************)
\* Mutant: the search-path probe's entry replaces the registry's.
MergeEnv_EnvWins(foundipys, envipys) ==
  [k \in DOMAIN foundipys \cup DOMAIN envipys |->
     IF k \in DOMAIN envipys THEN envipys[k] ELSE foundipys[k]]

\* for k, v in envipys.items(): if k not in foundipys: foundipys[k] = v
MergeEnv(foundipys, envipys) ==
  [k \in DOMAIN foundipys \cup DOMAIN envipys |->
     IF k \in DOMAIN foundipys THEN foundipys[k] ELSE envipys[k]]

MergeResult(foundipys) ==
  IF Cardinality(DOMAIN foundipys) = 0
  THEN Raise("IronPythonDetectionError", "Could not find any IronPython directory.")
  ELSE Return(foundipys)

\* reg, env: the outcomes of the two probes.  Only IronPythonDetectionError
\* is caught around each probe (the probe then counts as an empty dict);
\* any other exception leaves search_ipy as it is.
CombineProbes(reg, env) ==
  IF ~reg.ok /\ reg.exc # "IronPythonDetectionError" THEN reg
  ELSE IF ~env.ok /\ env.exc # "IronPythonDetectionError" THEN env
  ELSE MergeResult(MergeEnv(IF reg.ok THEN reg.val ELSE EmptyDict,
                            IF env.ok THEN env.val ELSE EmptyDict))

search_ipy(regkeys, detailed) ==
  CombineProbes(search_ipy_reg(regkeys, detailed), search_ipy_env(detailed))

(***************************************************************************)
(* detect.auto_detect                                                       *)
(***************************************************************************)
\* Mutant: the same-major tier is consulted before the same-major.minor tier.
SelectOptimum_MajorFirst(cpy_ver, foundipys) ==
  IF \E v \in DOMAIN foundipys : VersionCmp(cpy_ver, v) = 0 THEN Return(cpy_ver)
  ELSE IF \E v \in DOMAIN foundipys : major(cpy_ver) = major(v)
  THEN Return(SortedReverse({v \in DOMAIN foundipys : major(cpy_ver) = major(v)})[1])
  ELSE Raise("IronPythonDetectionError",
             "Could not find the optimum version of IronPython.")

\* Mutant: with no runtime of the host's major, the newest runtime of any
\* major is returned instead of failing.
SelectOptimum_AnyMajor(cpy_ver, foundipys) ==
  IF \E v \in DOMAIN foundipys : VersionCmp(cpy_ver, v) = 0 THEN Return(cpy_ver)
  ELSE IF \E v \in DOMAIN foundipys : major(cpy_ver) = major(v) /\ minor(cpy_ver) = minor(v)
  THEN Return(SortedReverse({v \in DOMAIN foundipys :
                               major(cpy_ver) = major(v) /\ minor(cpy_ver) = minor(v)})[1])
  ELSE IF \E v \in DOMAIN foundipys : major(cpy_ver) = major(v)
  THEN Return(SortedReverse({v \in DOMAIN foundipys : major(cpy_ver) = major(v)})[1])
  ELSE Return(SortedReverse(DOMAIN foundipys)[1])

\* if cpy_ver in ipy_vers ... elif ipy_vers_minor != [] ... elif
\* ipy_vers_major != [] ... else raise, on the two sorted lists.
PickTier(cpy_ver, ipy_vers, ipy_vers_minor, ipy_vers_major) ==
  IF \E v \in ipy_vers : VersionCmp(cpy_ver, v) = 0 THEN Return(cpy_ver)
  ELSE IF ipy_vers_minor # <<>> THEN Return(ipy_vers_minor[1])
  ELSE IF ipy_vers_major # <<>> THEN Return(ipy_vers_major[1])
  ELSE Raise("IronPythonDetectionError",
             "Could not find the optimum version of IronPython.")

\* The tiers of auto_detect on the host's version and the discovered map.
SelectOptimum(cpy_ver, foundipys) ==
  PickTier(cpy_ver, DOMAIN foundipys,
           SortedReverse({v \in DOMAIN foundipys :
                            major(cpy_ver) = major(v) /\ minor(cpy_ver) = minor(v)}),
           SortedReverse({v \in DOMAIN foundipys : major(cpy_ver) = major(v)}))

\* if detailed: return (optimum_ipy_ver, foundipys[optimum_ipy_ver])
\* else: return (optimum_ipy_ver.major_minor(), foundipys[optimum_ipy_ver])
ReturnOptimum(detailed, foundipys, optimum_ipy_ver) ==
  IF ~optimum_ipy_ver.ok THEN optimum_ipy_ver
  ELSE IF detailed
  THEN Return(<< optimum_ipy_ver.val, foundipys[optimum_ipy_ver.val] >>)
  ELSE Return(<< major_minor(optimum_ipy_ver.val), foundipys[optimum_ipy_ver.val] >>)

\* cpy_ver, found: the outcomes of HashableVersion() and search_ipy; an
\* exception of either leaves auto_detect as it is.
DetectWith(detailed, cpy_ver, found) ==
  IF ~cpy_ver.ok THEN cpy_ver
  ELSE IF ~found.ok THEN found
  ELSE ReturnOptimum(detailed, found.val, SelectOptimum(cpy_ver.val, found.val))

\* host: the string platform.python_version() returns.
auto_detect(detailed, host) ==
  DetectWith(detailed, HashableVersion(host), search_ipy(REGKEYS, TRUE))

(***************************************************************************)
(* compiler.ModuleCompiler.  A path is a record [dir, name, ext]; dir "."  *)
(* is a path relative to the working directory.                             *)
(***************************************************************************)
\* Bound: how many times call_pyc is entered in one run.
MaxCalls == 1

Path(dir, name, ext) == [dir |-> dir, name |-> name, ext |-> ext]

\* module.__file__ of a module the runtime resolves internally.
None == Path("None", "", "")

\* os.getcwd()
Cwd == "/cwd"

\* os.path.abspath
abspath(p) == IF p.dir = "." THEN [p EXCEPT !.dir = Cwd] ELSE p

\* Mutant: takes the root, [0], where the extension, [1], is meant.
splitext_ext_Root(p) == p.name

\* os.path.splitext(p)[1]
splitext_ext(p) == p.ext

\* The script lists a caller hands to the constructor.
ScriptArgs ==
  { << Path(".", "main", ".py") >>,
    << Path("/cwd", "main", ".py") >>,
    << Path(".", "main", ".py"), Path(".", "helper", ".py") >>,
    << Path("/proj", "helper", ".py"), Path("/cwd", "main", ".py") >> }

\* What modulefinder can report for a script: resolved modules with their
\* file (None for a built-in), and names it could not resolve (badmodules).
Module(name, resolved, file) == [name |-> name, resolved |-> resolved, file |-> file]

ModSys == Module("sys", TRUE, None)

ModOs == Module("os", TRUE, Path("/ipy/Lib", "os", ".py"))

ModSocket == Module("_socket", TRUE, Path("/ipy/DLLs", "_socket", ".pyd"))

\* found through a relative search directory
ModHelper == Module("helper", TRUE, Path(".", "helper", ".py"))

\* main.py importing itself by name
ModMain == Module("main", TRUE, Path("/cwd", "main", ".py"))

ModClr == Module("clr", FALSE, None)

\* The import-graph walks of one script (beside the script itself).
Walks ==
  { {},
    { ModSys, ModOs, ModSocket, ModClr },
    { ModMain, ModHelper, ModSys } }

\* The values of the dirs_of_modules argument.
DirsArgs == { <<>>, << "/proj" >> }

\* The argument lists direct callers of call_pyc pass: flag-style tokens,
\* values with spaces, a repeated argument, no argument at all.
ArgLists ==
  { <<>>,
    << "/out:main", "/cwd/main.py" >>,
    << "/out:my app", "/target:exe", "/main:/cwd/main.py", "/cwd/main.py" >>,
    << "/embed", "a b.py", "/embed" >> }

\* The direct calls of call_pyc: args, delete_resp and cwd ("" for None).
DirectCall(args, delete_resp, cwd) ==
  [args |-> args, delete_resp |-> delete_resp, cwd |-> cwd]

DirectCalls ==
  { DirectCall(<<>>, TRUE, ""),
    DirectCall(<< "/out:main", "/cwd/main.py" >>, TRUE, ""),
    DirectCall(<< "/out:main", "/cwd/main.py" >>, FALSE, "/out"),
    DirectCall(<< "/out:my app", "/target:exe", "/main:/cwd/main.py", "/cwd/main.py" >>,
               FALSE, ""),
    DirectCall(<< "/embed", "a b.py", "/embed" >>, TRUE, "/out") }

\* How the external compiler process can behave.
PycBehaviours ==
  { [launch |-> FALSE, stdout |-> "", returncode |-> 0],
    [launch |-> TRUE, stdout |-> "Output: main.dll", returncode |-> 0],
    [launch |-> TRUE, stdout |-> "IOError: no such file", returncode |-> 1] }

EXECUTABLE == "ipy.exe"

VARIABLES
  paths_to_scripts,      \* self.paths_to_scripts
  dirs_of_modules,       \* self.dirs_of_modules (<<>> before the first analysis)
  builtin_modules,       \* self.builtin_modules
  compilable_modules,    \* self.compilable_modules
  uncompilable_modules,  \* self.uncompilable_modules
  response_file,         \* self.response_file: <<>> (None) or <<fd, path>>
  pyc_stdout,            \* self.pyc_stdout
  files,                 \* the temporary files on disk: path -> [content, open]
  pc,                    \* the position in call_pyc ("idle" outside it)
  call,                  \* call_pyc's arguments and locals
  proc,                  \* the external compiler process
  ret,                   \* how the last finished method call ended
  ncalls,                \* how many times call_pyc was entered
  trace                  \* the steps the current call_pyc has taken, in order

mcVars == << paths_to_scripts, dirs_of_modules, builtin_modules, compilable_modules,
             uncompilable_modules, response_file, pyc_stdout, files, pc, call,
             proc, ret, ncalls, trace >>

\* Several threads, each calling call_pyc on a ModuleCompiler, on one disk.
VARIABLES
  cpc,      \* each caller's position in call_pyc
  cresp,    \* self.response_file of each ModuleCompiler object
  disk,     \* the temporary files on disk: path -> the caller whose mkstemp made it
  clog      \* per caller: its delete_resp, and what it made, passed and removed

concVars == << cpc, cresp, disk, clog >>

vars == << mcVars, detVars, concVars >>

analysisVars == << dirs_of_modules, builtin_modules, compilable_modules,
                   uncompilable_modules >>

NoProc == [state |-> "none", behaviour |-> [launch |-> FALSE, stdout |-> "", returncode |-> 0],
           argv |-> <<>>, cwd |-> ""]

\* create_asm's arguments (copy_ipydll is left at its default, False).
Options(out, target_asm, target_platform, embed, standalone, mta) ==
  [out |-> out, target_asm |-> target_asm, target_platform |-> target_platform,
   embed |-> embed, standalone |-> standalone, mta |-> mta]

\* target_platform=None
NoPlatform == "None"

\* The defaults of create_asm's signature.
DefaultOptions == Options(None, "dll", NoPlatform, TRUE, TRUE, FALSE)

\* A direct call of call_pyc.
Direct == [via |-> "call_pyc", opts |-> DefaultOptions, analysed |-> FALSE]

\* via: the method that made the call; opts: create_asm's arguments;
\* analysed: whether create_asm ran check_compilability first.
NoCallPyc == [args |-> <<>>, delete_resp |-> FALSE, executable |-> "", cwd |-> "",
              i |-> 0, ipy_result |-> <<>>, via |-> "none", opts |-> DefaultOptions,
              analysed |-> FALSE]

\* For a call_pyc: resp is the response file it made, delete_resp its
\* argument, ipy_result what execute_ipy returned to it (<<>> if nothing).
\* For a check_compilability: walks is what modulefinder reported, by script.
NoRet == [op |-> "none", out |-> Return(0), resp |-> <<>>, delete_resp |-> FALSE,
          ipy_result |-> <<>>, walks |-> <<>>]

Ended(op, out) == [NoRet EXCEPT !.op = op, !.out = out]

EndedCallPyc(out) ==
  [op |-> "call_pyc", out |-> out, resp |-> response_file[2],
   delete_resp |-> call.delete_resp, ipy_result |-> call.ipy_result, walks |-> <<>>]

(***************************************************************************)
(* ModuleCompiler.__init__ (with ipy_dir given)                             *)
(***************************************************************************)
ipy_dir == "/ipy"

pyc_abspath == "/ipy/Tools/Scripts/pyc.py"

\* The result sets before any analysis.
NotAnalysed ==
  /\ dirs_of_modules = <<>>
  /\ builtin_modules = {}
  /\ compilable_modules = {}
  /\ uncompilable_modules = {}

McInit ==
  /\ \E given \in ScriptArgs :
       paths_to_scripts = [i \in DOMAIN given |-> abspath(given[i])]
  /\ NotAnalysed
  /\ response_file = <<>>
  /\ pyc_stdout = ""
  /\ files = << >>
  /\ pc = "idle"
  /\ call = NoCallPyc
  /\ proc = NoProc
  /\ ret = NoRet
  /\ ncalls = 0
  /\ trace = <<>>

(***************************************************************************)
(* ModuleCompiler.check_compilability                                       *)
(***************************************************************************)
\* mf.run_script(script): the walk's modules plus the script itself as
\* __main__, whose __file__ is the script's path.
FinderModules(script, walk) ==
  { m \in walk : m.resolved } \cup { [name |-> "__main__", resolved |-> TRUE, file |-> script] }

FinderBadModules(walk) == { m.name : m \in { x \in walk : ~x.resolved } }

\* The body of the loop over the scripts, on the three result sets.
RECURSIVE ScanScripts(_, _, _)
ScanScripts(scripts, walks, acc) ==
  IF scripts = <<>> THEN acc
  ELSE LET mods == FinderModules(Head(scripts), Head(walks))
           builtins == { m \in mods : m.file = None }
           natives == { m \in mods \ builtins : splitext_ext(m.file) = ".pyd" }
           others == (mods \ builtins) \ natives
       IN ScanScripts(Tail(scripts), Tail(walks),
            [builtin |-> acc.builtin \cup { m.name : m \in builtins },
             uncompilable |-> acc.uncompilable \cup FinderBadModules(Head(walks))
                                \cup { m.name : m \in natives },
             compilable |-> acc.compilable \cup { abspath(m.file) : m \in others }])

\* The default search directories: the runtime's Lib and site-packages.
DefaultDirs == << "/ipy/Lib", "/py/site-packages" >>

\* Mutant: the input scripts are not taken out of compilable_modules.
check_compilability_KeepScripts(dirs, walks) ==
  /\ dirs_of_modules' = (IF dirs = <<>> THEN DefaultDirs ELSE dirs)
  /\ builtin_modules' = ScanScripts(paths_to_scripts, walks,
                           [builtin |-> builtin_modules,
                            uncompilable |-> uncompilable_modules,
                            compilable |-> compilable_modules]).builtin
  /\ uncompilable_modules' = ScanScripts(paths_to_scripts, walks,
                           [builtin |-> builtin_modules,
                            uncompilable |-> uncompilable_modules,
                            compilable |-> compilable_modules]).uncompilable
  /\ compilable_modules' = ScanScripts(paths_to_scripts, walks,
                           [builtin |-> builtin_modules,
                            uncompilable |-> uncompilable_modules,
                            compilable |-> compilable_modules]).compilable

check_compilability(dirs, walks) ==
  LET acc == ScanScripts(paths_to_scripts, walks,
                         [builtin |-> builtin_modules,
                          uncompilable |-> uncompilable_modules,
                          compilable |-> compilable_modules])
  IN /\ dirs_of_modules' = (IF dirs = <<>> THEN DefaultDirs ELSE dirs)
     /\ builtin_modules' = acc.builtin
     /\ uncompilable_modules' = acc.uncompilable
     /\ compilable_modules' = acc.compilable \ { paths_to_scripts[i] : i \in DOMAIN paths_to_scripts }

CheckCompilability ==
  /\ pc = "idle"
  /\ \E dirs \in DirsArgs, walks \in [DOMAIN paths_to_scripts -> Walks] :
       /\ check_compilability(dirs, walks)
       /\ ret' = [Ended("check_compilability", Return(0)) EXCEPT !.walks = walks]
  /\ UNCHANGED << paths_to_scripts, response_file, pyc_stdout, files, pc, call,
                  proc, ncalls, trace, detVars, concVars >>

(***************************************************************************)
(* ModuleCompiler.call_pyc, one action per step                             *)
(***************************************************************************)
\* tempfile.mkstemp(suffix=".txt", prefix="IPC"): a name no file has yet.
TempName(n) == << "IPC", n, ".txt" >>

FreshTemp == TempName(CHOOSE n \in 1..(MaxCalls + 1) : TempName(n) \notin DOMAIN files)

Step(label) == trace' = Append(trace, label)

\* Entry: cwd defaults to os.getcwd(); mkstemp creates and opens the file.
CallPyc(args, delete_resp, executable, cwd, caller) ==
  /\ pc = "idle"
  /\ ncalls < MaxCalls
  /\ ncalls' = ncalls + 1
  /\ LET path == FreshTemp
     IN /\ response_file' = << 3, path >>
        /\ files' = DictSet(files, path, [content |-> "", open |-> TRUE])
  /\ call' = [args |-> args, delete_resp |-> delete_resp, executable |-> executable,
              cwd |-> (IF cwd = "" THEN Cwd ELSE cwd), i |-> 1, ipy_result |-> <<>>,
              via |-> caller.via, opts |-> caller.opts, analysed |-> caller.analysed]
  /\ pc' = "write"
  /\ trace' = << "mkstemp" >>
  /\ ret' = NoRet
  /\ UNCHANGED << paths_to_scripts, pyc_stdout, proc, detVars, concVars >>

EnterCallPyc ==
  /\ \E c \in DirectCalls :
       CallPyc(c.args, c.delete_resp, EXECUTABLE, c.cwd, Direct)
  /\ UNCHANGED analysisVars

\* Mutant: the arguments are written separated by spaces, on one line.
WriteLine_Spaces ==
  /\ pc = "write"
  /\ call.i <= Len(call.args)
  /\ LET path == response_file[2]
     IN files' = [files EXCEPT ![path].content = @ \o call.args[call.i] \o " "]
  /\ call' = [call EXCEPT !.i = @ + 1]
  /\ Step("write")
  /\ UNCHANGED << paths_to_scripts, analysisVars, response_file, pyc_stdout, pc,
                  proc, ret, ncalls, detVars, concVars >>

\* os.write(self.response_file[0], line + "\n") for the next line of args.
WriteLine ==
  /\ pc = "write"
  /\ call.i <= Len(call.args)
  /\ LET path == response_file[2]
     IN files' = [files EXCEPT ![path].content = @ \o call.args[call.i] \o "\n"]
  /\ call' = [call EXCEPT !.i = @ + 1]
  /\ Step("write")
  /\ UNCHANGED << paths_to_scripts, analysisVars, response_file, pyc_stdout, pc,
                  proc, ret, ncalls, detVars, concVars >>

\* os.close(self.response_file[0])
CloseResp ==
  /\ pc = "write"
  /\ call.i > Len(call.args)
  /\ files' = [files EXCEPT ![response_file[2]].open = FALSE]
  /\ pc' = "exec"
  /\ Step("close")
  /\ UNCHANGED << paths_to_scripts, analysisVars, response_file, pyc_stdout, call,
                  proc, ret, ncalls, detVars, concVars >>

\* process.execute_ipy up to subprocess.Popen: the process starts, or Popen
\* raises OSError, which nothing in call_pyc catches.
StartProcess ==
  /\ pc = "exec"
  /\ \E b \in PycBehaviours :
       IF execute_ipy(b).ok
       THEN /\ proc' = [state |-> "running", behaviour |-> b,
                        argv |-> << call.executable, pyc_abspath, << "@", response_file[2] >> >>,
                        cwd |-> call.cwd]
            /\ pc' = "communicate"
            /\ ret' = ret
            /\ call' = call
            /\ Step("popen")
       ELSE /\ proc' = NoProc
            /\ pc' = "idle"
            /\ ret' = EndedCallPyc(execute_ipy(b))
            /\ call' = NoCallPyc
            /\ Step("popen failed")
  /\ UNCHANGED << paths_to_scripts, analysisVars, response_file, pyc_stdout, files,
                  ncalls, detVars, concVars >>

\* The external compiler runs to its end.
ProcessExits ==
  /\ proc.state = "running"
  /\ proc' = [proc EXCEPT !.state = "exited"]
  /\ Step("exit")
  /\ UNCHANGED << paths_to_scripts, analysisVars, response_file, pyc_stdout, files,
                  pc, call, ret, ncalls, detVars, concVars >>

\* Mutant: the result is taken without waiting for the process to end.
Communicate_NoWait ==
  /\ pc = "communicate"
  /\ call' = [call EXCEPT !.ipy_result = execute_ipy(proc.behaviour).val]
  /\ pyc_stdout' = execute_ipy(proc.behaviour).val[1]
  /\ proc' = NoProc
  /\ pc' = "delete"
  /\ Step("communicate")
  /\ UNCHANGED << paths_to_scripts, analysisVars, response_file, files, ret, ncalls,
                  detVars, concVars >>

\* communicate() returns once the process has exited; execute_ipy returns
\* (output, returncode) and call_pyc stores the output in pyc_stdout.
Communicate ==
  /\ pc = "communicate"
  /\ proc.state = "exited"
  /\ call' = [call EXCEPT !.ipy_result = execute_ipy(proc.behaviour).val]
  /\ pyc_stdout' = execute_ipy(proc.behaviour).val[1]
  /\ proc' = NoProc
  /\ pc' = "delete"
  /\ Step("communicate")
  /\ UNCHANGED << paths_to_scripts, analysisVars, response_file, files, ret, ncalls, detVars, concVars >>

\* if delete_resp: os.remove(self.response_file[1])
DeleteResp ==
  /\ pc = "delete"
  /\ IF call.delete_resp
     THEN /\ files' = [f \in DOMAIN files \ {response_file[2]} |-> files[f]]
          /\ Step("remove")
     ELSE /\ files' = files
          /\ trace' = trace
  /\ pc' = "check"
  /\ UNCHANGED << paths_to_scripts, analysisVars, response_file, pyc_stdout, call,
                  proc, ret, ncalls, detVars, concVars >>

\* "{0} returned {1} exit status.".format(executable, ipy_result[1])
\* kept as the template and the two values substituted into it
ExitStatusMessage(executable, status) ==
  [template |-> "{0} returned {1} exit status.", a0 |-> executable, a1 |-> status]

\* if ipy_result[1] != 0: raise ModuleCompilationError(msg=...)
CheckExitCode ==
  /\ pc = "check"
  /\ ret' = EndedCallPyc(IF call.ipy_result[2] # 0
                          THEN Raise("ModuleCompilationError",
                                     ExitStatusMessage(call.executable, call.ipy_result[2]))
                          ELSE Return(0))
  /\ call' = NoCallPyc
  /\ pc' = "idle"
  /\ Step("test exit code")
  /\ UNCHANGED << paths_to_scripts, analysisVars, response_file, pyc_stdout, files,
                  proc, ncalls, detVars, concVars >>

(***************************************************************************)
(* ModuleCompiler.create_asm: the analysis if nothing is known yet, the     *)
(* argument list, and the entry of call_pyc.  The following steps are the   *)
(* steps of call_pyc above.                                                 *)
(***************************************************************************)
\* A path as the string the program handles.
PathStr(p) == IF p.dir = "." THEN p.name \o p.ext ELSE p.dir \o "/" \o p.name \o p.ext

\* os.path.splitext(p)[0]
splitext_root(p) == [p EXCEPT !.ext = ""]

\* self.output_asm
output_asm(o, scripts) ==
  IF o.out = None
  THEN Path(Cwd, scripts[1].name,
            IF o.target_asm \in {"exe", "winexe"} THEN ".exe" ELSE ".dll")
  ELSE abspath(o.out)

\* Mutant: /platform: is appended before /target: and /main:.
ExeArgs_PlatformFirst(o, scripts) ==
  (IF o.target_platform \in {"x86", "x64"}
   THEN << "/platform:" \o o.target_platform >> ELSE <<>>)
  \o << "/target:" \o o.target_asm, "/main:" \o PathStr(scripts[1]) >>
  \o (IF o.embed THEN << "/embed" >> ELSE <<>>)
  \o (IF o.standalone THEN << "/standalone" >> ELSE <<>>)

\* The options that are emitted for an executable only.
ExeArgs(o, scripts) ==
  << "/target:" \o o.target_asm, "/main:" \o PathStr(scripts[1]) >>
  \o (IF o.target_platform \in {"x86", "x64"}
      THEN << "/platform:" \o o.target_platform >> ELSE <<>>)
  \o (IF o.embed THEN << "/embed" >> ELSE <<>>)
  \o (IF o.standalone THEN << "/standalone" >> ELSE <<>>)

\* Mutant: /embed and /standalone are appended for every target.
pyc_args_EmbedAlways(o, scripts, modules) ==
  << "/out:" \o PathStr(splitext_root(output_asm(o, scripts))) >>
  \o (IF o.target_asm \in {"exe", "winexe"}
      THEN ExeArgs([o EXCEPT !.embed = FALSE, !.standalone = FALSE], scripts) ELSE <<>>)
  \o (IF o.embed THEN << "/embed" >> ELSE <<>>)
  \o (IF o.standalone THEN << "/standalone" >> ELSE <<>>)
  \o (IF o.target_asm = "winexe" /\ o.mta THEN << "/mta" >> ELSE <<>>)
  \o [i \in DOMAIN scripts |-> PathStr(scripts[i])]
  \o [i \in DOMAIN modules |-> PathStr(modules[i])]

\* pyc_args; modules is self.compilable_modules in the order the set is
\* iterated in.
pyc_args(o, scripts, modules) ==
  << "/out:" \o PathStr(splitext_root(output_asm(o, scripts))) >>
  \o (IF o.target_asm \in {"exe", "winexe"} THEN ExeArgs(o, scripts) ELSE <<>>)
  \o (IF o.target_asm = "winexe" /\ o.mta THEN << "/mta" >> ELSE <<>>)
  \o [i \in DOMAIN scripts |-> PathStr(scripts[i])]
  \o [i \in DOMAIN modules |-> PathStr(modules[i])]

\* The orders in which iterating over a set can yield its elements.
Orderings(S) ==
  { f \in [1..Cardinality(S) -> S] : \A i, j \in DOMAIN f : f[i] = f[j] => i = j }

\* Every combination of values of create_asm's arguments.
AsmOptions ==
  { Options(out, target_asm, target_platform, embed, standalone, mta) :
      out \in { None, Path(".", "my app", ".exe") },
      target_asm \in { "dll", "exe", "winexe" },
      target_platform \in { NoPlatform, "x86", "x64", "arm" },
      embed \in BOOLEAN, standalone \in BOOLEAN, mta \in BOOLEAN }

\* Mutant: the analysis is run on every call.
AnalyseIfEmpty_Always(walks) == check_compilability(<<>>, walks)

\* if self.compilable_modules == set(): self.check_compilability()
AnalyseIfEmpty(walks) ==
  IF compilable_modules = {}
  THEN check_compilability(<<>>, walks)
  ELSE UNCHANGED analysisVars

create_asm(o, delete_resp, executable, walks) ==
  /\ AnalyseIfEmpty(walks)
  /\ \E modules \in Orderings(compilable_modules') :
       CallPyc(pyc_args(o, paths_to_scripts, modules), delete_resp, executable,
               output_asm(o, paths_to_scripts).dir,
               [via |-> "create_asm", opts |-> o, analysed |-> compilable_modules = {}])

\* The calls of create_asm whose compiler run is followed to its end:
\* the options and delete_resp.
AsmCall(o, delete_resp) == [opts |-> o, delete_resp |-> delete_resp]

AsmCalls ==
  { AsmCall(DefaultOptions, TRUE),
    AsmCall(Options(None, "exe", "x86", TRUE, FALSE, FALSE), FALSE),
    AsmCall(Options(Path(".", "my app", ".exe"), "winexe", NoPlatform, FALSE, TRUE, TRUE), TRUE),
    AsmCall(Options(Path("/out", "lib", ".dll"), "dll", "x64", TRUE, TRUE, TRUE), FALSE) }

\* The walks modulefinder can make if create_asm runs the analysis.
AsmWalks ==
  IF compilable_modules = {}
  THEN [DOMAIN paths_to_scripts -> Walks]
  ELSE { [i \in DOMAIN paths_to_scripts |-> {}] }

CreateAsm ==
  /\ pc = "idle"
  /\ ncalls < MaxCalls
  /\ \E walks \in AsmWalks, c \in AsmCalls :
       create_asm(c.opts, c.delete_resp, EXECUTABLE, walks)

McNext ==
  \/ CheckCompilability
  \/ CreateAsm
  \/ EnterCallPyc
  \/ WriteLine
  \/ CloseResp
  \/ StartProcess
  \/ ProcessExits
  \/ Communicate
  \/ DeleteResp
  \/ CheckExitCode

(***************************************************************************)
(* Concurrent calls of call_pyc, one step of one caller at a time.  What    *)
(* is written to the files and what the compiler answers play no part here. *)
(***************************************************************************)
Callers == { "t1", "t2" }

\* Mutant: both callers use the same ModuleCompiler object.
ObjOf_Shared(c) == "o1"

\* The ModuleCompiler object (self) a caller calls call_pyc on: its own.
ObjOf(c) == IF c = "t1" THEN "o1" ELSE "o2"

Objects == { ObjOf(c) : c \in Callers }

\* The names mkstemp can come up with: enough for every call to get a new one.
TempPool == { TempName(n) : n \in 1..(Cardinality(Callers) * MaxCalls) }

NoLog == [delete_resp |-> FALSE, made |-> <<>>, passed |-> <<>>, passed_owner |-> "",
          removed_owner |-> "", n |-> 0]

ConcIdle ==
  /\ cpc = [c \in Callers |-> "idle"]
  /\ cresp = [o \in Objects |-> <<>>]
  /\ disk = << >>
  /\ clog = [c \in Callers |-> NoLog]

\* self.response_file = tempfile.mkstemp(...): a file no other file's name.
CMkstemp(c) ==
  /\ cpc[c] = "idle"
  /\ clog[c].n < MaxCalls
  /\ \E path \in TempPool \ DOMAIN disk, delete_resp \in BOOLEAN :
       /\ cresp' = [cresp EXCEPT ![ObjOf(c)] = << 3, path >>]
       /\ disk' = DictSet(disk, path, c)
       /\ clog' = [clog EXCEPT ![c] = [NoLog EXCEPT !.delete_resp = delete_resp,
                                                     !.made = path, !.n = clog[c].n + 1]]
  /\ cpc' = [cpc EXCEPT ![c] = "write"]
  /\ UNCHANGED << mcVars, detVars >>

\* the loop of os.write, then os.close(self.response_file[0])
CWriteClose(c) ==
  /\ cpc[c] = "write"
  /\ cpc' = [cpc EXCEPT ![c] = "exec"]
  /\ UNCHANGED << cresp, disk, clog, mcVars, detVars >>

\* execute_ipy with "@" + self.response_file[1]: the process starts, or
\* Popen raises and the call ends.
CPopen(c) ==
  /\ cpc[c] = "exec"
  /\ \/ /\ clog' = [clog EXCEPT ![c].passed = cresp[ObjOf(c)][2],
                                 ![c].passed_owner =
                                    IF cresp[ObjOf(c)][2] \in DOMAIN disk
                                    THEN disk[cresp[ObjOf(c)][2]] ELSE "nobody"]
        /\ cpc' = [cpc EXCEPT ![c] = "communicate"]
     \/ /\ clog' = clog
        /\ cpc' = [cpc EXCEPT ![c] = "idle"]
  /\ UNCHANGED << cresp, disk, mcVars, detVars >>

\* communicate() returns when the process has ended.
CCommunicate(c) ==
  /\ cpc[c] = "communicate"
  /\ cpc' = [cpc EXCEPT ![c] = "delete"]
  /\ UNCHANGED << cresp, disk, clog, mcVars, detVars >>

\* if delete_resp: os.remove(self.response_file[1]); os.remove raises if
\* there is no such file, which ends the call.
CDelete(c) ==
  /\ cpc[c] = "delete"
  /\ IF clog[c].delete_resp
     THEN IF cresp[ObjOf(c)][2] \in DOMAIN disk
          THEN /\ disk' = [f \in DOMAIN disk \ {cresp[ObjOf(c)][2]} |-> disk[f]]
               /\ clog' = [clog EXCEPT ![c].removed_owner = disk[cresp[ObjOf(c)][2]]]
               /\ cpc' = [cpc EXCEPT ![c] = "check"]
          ELSE /\ UNCHANGED << disk, clog >>
               /\ cpc' = [cpc EXCEPT ![c] = "idle"]
     ELSE /\ UNCHANGED << disk, clog >>
          /\ cpc' = [cpc EXCEPT ![c] = "check"]
  /\ UNCHANGED << cresp, mcVars, detVars >>

\* the exit code test, after which the call returns or raises
CCheck(c) ==
  /\ cpc[c] = "check"
  /\ cpc' = [cpc EXCEPT ![c] = "idle"]
  /\ UNCHANGED << cresp, disk, clog, mcVars, detVars >>

ConcMkstemp == \E c \in Callers : CMkstemp(c)

ConcWriteClose == \E c \in Callers : CWriteClose(c)

ConcPopen == \E c \in Callers : CPopen(c)

ConcCommunicate == \E c \in Callers : CCommunicate(c)

ConcDelete == \E c \in Callers : CDelete(c)

ConcCheck == \E c \in Callers : CCheck(c)

ConcNext ==
  \/ ConcMkstemp
  \/ ConcWriteClose
  \/ ConcPopen
  \/ ConcCommunicate
  \/ ConcDelete
  \/ ConcCheck

(***************************************************************************)
(* The detection state machine: the host is fixed at the start; each        *)
(* action is one call of a detection function, whose outcome is kept; one   *)
(* call is made on each host.                                               *)
(***************************************************************************)
NoCall == [op |-> "none", detailed |-> FALSE, host |-> <<>>, out |-> Return(0)]

\* A registry key that does not exist has no children.
KeyState(exists, children) == [exists |-> exists, children |-> children]

DetInit ==
  /\ winreg \in BOOLEAN
  /\ \E n1 \in 0..MaxCand :
       \E n2 \in 0..(MaxCand - n1) :
         \E n3 \in 0..(MaxCand - n1 - n2) :
           /\ \E c1 \in [1..n1 -> Dirs], c2 \in [1..n2 -> Dirs] :
                \E e1 \in (IF n1 > 0 THEN {TRUE} ELSE BOOLEAN),
                   e2 \in (IF n2 > 0 THEN {TRUE} ELSE BOOLEAN) :
                  registry = << KeyState(e1, c1), KeyState(e2, c2) >>
           /\ path_env \in [1..n3 -> Dirs]
  /\ det = NoCall
  /\ McInit
  /\ paths_to_scripts = << Path("/cwd", "main", ".py") >>
  /\ ConcIdle

CallSearchIpyReg ==
  /\ det.op = "none"
  /\ \E detailed \in BOOLEAN :
       det' = [op |-> "search_ipy_reg", detailed |-> detailed, host |-> <<>>,
               out |-> search_ipy_reg(REGKEYS, detailed)]
  /\ UNCHANGED << winreg, registry, path_env, mcVars, concVars >>

CallSearchIpyEnv ==
  /\ det.op = "none"
  /\ \E detailed \in BOOLEAN :
       det' = [op |-> "search_ipy_env", detailed |-> detailed, host |-> <<>>,
               out |-> search_ipy_env(detailed)]
  /\ UNCHANGED << winreg, registry, path_env, mcVars, concVars >>

CallSearchIpy ==
  /\ det.op = "none"
  /\ \E detailed \in BOOLEAN :
       det' = [op |-> "search_ipy", detailed |-> detailed, host |-> <<>>,
               out |-> search_ipy(REGKEYS, detailed)]
  /\ UNCHANGED << winreg, registry, path_env, mcVars, concVars >>

CallAutoDetect ==
  /\ det.op = "none"
  /\ \E detailed \in BOOLEAN, host \in HostVersions :
       det' = [op |-> "auto_detect", detailed |-> detailed, host |-> host,
               out |-> auto_detect(detailed, host)]
  /\ UNCHANGED << winreg, registry, path_env, mcVars, concVars >>

DetNext ==
  \/ CallSearchIpyReg
  \/ CallSearchIpyEnv
  \/ CallSearchIpy
  \/ CallAutoDetect

SpecDetect == DetInit /\ [][DetNext]_vars

\* The compiler object on a host where no detection call is in progress.
DetIdle ==
  /\ winreg = FALSE
  /\ registry = << KeyState(FALSE, <<>>), KeyState(FALSE, <<>>) >>
  /\ path_env = <<>>
  /\ det = NoCall

Init == McInit /\ DetIdle /\ ConcIdle

\* Concurrent callers on a constructed object; nothing else happens.
ConcInit ==
  /\ McInit
  /\ paths_to_scripts = << Path("/cwd", "main", ".py") >>
  /\ DetIdle
  /\ ConcIdle

SpecConc == ConcInit /\ [][ConcNext]_vars

(***************************************************************************)
(* create_asm's argument list and response file, for every combination of  *)
(* options: the object is new or has been analysed once, create_asm is      *)
(* called and the response file is written and closed.                      *)
(***************************************************************************)
\* The result sets after one check_compilability() that met these walks.
AnalysedOnce(walks) ==
  /\ dirs_of_modules = DefaultDirs
  /\ builtin_modules = ScanScripts(paths_to_scripts, walks,
        [builtin |-> {}, uncompilable |-> {}, compilable |-> {}]).builtin
  /\ uncompilable_modules = ScanScripts(paths_to_scripts, walks,
        [builtin |-> {}, uncompilable |-> {}, compilable |-> {}]).uncompilable
  /\ compilable_modules = ScanScripts(paths_to_scripts, walks,
        [builtin |-> {}, uncompilable |-> {}, compilable |-> {}]).compilable
        \ { paths_to_scripts[i] : i \in DOMAIN paths_to_scripts }

AsmInit ==
  /\ \E given \in ScriptArgs :
       paths_to_scripts = [i \in DOMAIN given |-> abspath(given[i])]
  /\ \/ NotAnalysed
     \/ \E walks \in [DOMAIN paths_to_scripts -> Walks] : AnalysedOnce(walks)
  /\ response_file = <<>>
  /\ pyc_stdout = ""
  /\ files = << >>
  /\ pc = "idle"
  /\ call = NoCallPyc
  /\ proc = NoProc
  /\ ret = NoRet
  /\ ncalls = 0
  /\ trace = <<>>
  /\ DetIdle
  /\ ConcIdle

BuildAsm ==
  /\ pc = "idle"
  /\ ncalls < MaxCalls
  /\ \E walks \in AsmWalks, o \in AsmOptions :
       create_asm(o, TRUE, EXECUTABLE, walks)

AsmNext ==
  \/ BuildAsm
  \/ WriteLine
  \/ CloseResp

SpecAsm == AsmInit /\ [][AsmNext]_vars

Next == McNext

Spec == Init /\ [][Next]_vars

(***************************************************************************)
(* Properties of the compiler object.                                       *)
(***************************************************************************)
\* Reading a response file back, as Python's str.find and str.split do.
\* text.find(sep) from position i on, for a one-character sep; 0 if none.
RECURSIVE Find(_, _, _)
Find(text, sep, i) ==
  IF i > Len(text) THEN 0
  ELSE IF SubSeq(text, i, i) = sep THEN i
  ELSE Find(text, sep, i + 1)

\* text.split(sep), given the position of the first sep.
RECURSIVE SplitAt(_, _, _)
SplitAt(text, sep, n) ==
  IF n = 0 THEN << text >>
  ELSE << SubSeq(text, 1, n - 1) >>
       \o SplitAt(SubSeq(text, n + 1, Len(text)), sep,
                  Find(SubSeq(text, n + 1, Len(text)), sep, 1))

Split(text) == SplitAt(text, "\n", Find(text, "\n", 1))

\* The lines of a text file: what precedes each newline.
ReadLines(text) == SubSeq(Split(text), 1, Len(Split(text)) - 1)

\* C1: in a call_pyc run the response file is removed only after the exit
\* code has been tested: every "remove" step of the run is preceded by the
\* step that tests the exit code.
C1_RemoveAfterExitCodeTest ==
  \A i \in DOMAIN trace :
    trace[i] = "remove" => \E j \in 1..(i - 1) : trace[j] = "test exit code"

CallPycEnded == pc = "idle" /\ ret.op = "call_pyc"

\* C2: however call_pyc ends (exit code 0, non-zero exit code, or the
\* process could not be started), the response file it made is gone when
\* delete_resp is true and is still there when delete_resp is false.
C2_ResponseFileGoneOrKept ==
  CallPycEnded
  => /\ ret.delete_resp => ret.resp \notin DOMAIN files
     /\ ~ret.delete_resp => ret.resp \in DOMAIN files

\* C3: call_pyc returns normally exactly when the compiler exits with code
\* 0; for a non-zero exit code it raises the compilation error, which
\* carries the executable name, the exit code and the captured output.
C3_ErrorCarriesOutput ==
  (CallPycEnded /\ ret.ipy_result # <<>>)
  => /\ ret.out.ok <=> ret.ipy_result[2] = 0
     /\ ret.ipy_result[2] # 0
          => /\ ret.out.exc = "ModuleCompilationError"
             /\ ret.out.msg.a0 = EXECUTABLE
             /\ ret.out.msg.a1 = ret.ipy_result[2]
             /\ "output" \in DOMAIN ret.out.msg
             /\ ret.out.msg.output = ret.ipy_result[1]

\* C10: after any sequence of check_compilability calls, compilable_modules
\* holds no path that is one of the input scripts.
C10_ScriptsNotCompilable ==
  \A i \in DOMAIN paths_to_scripts : paths_to_scripts[i] \notin compilable_modules

\* The scripts are main.py and helper.py of the working directory; the
\* analysis has run and only ever met the walk in which main imports itself
\* and helper (the one walk besides the empty one that leaves sys as the
\* only trace), and compilable_modules is empty.
C10_Witness ==
  /\ paths_to_scripts = << Path("/cwd", "main", ".py"), Path("/cwd", "helper", ".py") >>
  /\ ret.op = "check_compilability"
  /\ builtin_modules = {"sys"}
  /\ uncompilable_modules = {}
  /\ compilable_modules = {}

\* The modules modulefinder reported in the last analysis, for script i.
Reported(i) ==
  ret.walks[i] \cup { Module("__main__", TRUE, paths_to_scripts[i]) }

IsScript(p) == \E i \in DOMAIN paths_to_scripts : paths_to_scripts[i] = p

\* C11: after check_compilability, of every module the walk of any script
\* reported: an unresolved one has its name in uncompilable_modules; a
\* resolved one without a file has its name in builtin_modules; a resolved
\* one with a .pyd file has its name in uncompilable_modules and its path
\* not in compilable_modules; any other resolved one that is not an input
\* script has its absolute path in compilable_modules.
C11_Classification ==
  ret.op = "check_compilability"
  => \A i \in DOMAIN paths_to_scripts :
       \A m \in Reported(i) :
         /\ ~m.resolved => m.name \in uncompilable_modules
         /\ (m.resolved /\ m.file = None) => m.name \in builtin_modules
         /\ (m.resolved /\ m.file # None /\ m.file.ext = ".pyd")
              => /\ m.name \in uncompilable_modules
                 /\ abspath(m.file) \notin compilable_modules
         /\ (m.resolved /\ m.file # None /\ m.file.ext # ".pyd"
               /\ ~IsScript(abspath(m.file)))
              => abspath(m.file) \in compilable_modules

\* An analysis of two scripts whose walks held an unresolved module, a
\* native one, a built-in one, a plain one and the scripts themselves.
C11_Witness ==
  /\ ret.op = "check_compilability"
  /\ Len(paths_to_scripts) = 2
  /\ ret.walks = << { ModSys, ModOs, ModSocket, ModClr }, { ModMain, ModHelper, ModSys } >>
  /\ uncompilable_modules = { "_socket", "clr" }
  /\ builtin_modules = { "sys" }
  /\ compilable_modules = { Path("/ipy/Lib", "os", ".py") }

\* C15: execute_ipy returns the pair (combined output, exit code) of every
\* process that was started, whatever its exit code; it fails only when the
\* executable cannot be started, with the error of the failed start.
C15_ExitCodeIsReturned ==
  [][ /\ (pc = "communicate" /\ pc' # "communicate")
           => /\ pc' = "delete"
              /\ call'.ipy_result = << proc.behaviour.stdout, proc.behaviour.returncode >>
      /\ (pc = "exec" /\ pc' = "idle")
           => /\ ret'.ipy_result = <<>>
              /\ ~ret'.out.ok
              /\ ret'.out.exc = "OSError"
      /\ (pc = "exec" /\ pc' = "communicate") => proc'.behaviour.launch ]_vars

\* execute_ipy has returned the output and the exit code 1 to call_pyc.
C15_Witness ==
  /\ pc = "delete"
  /\ call.ipy_result = << "IOError: no such file", 1 >>

\* The steps of the call so far begin with: mkstemp, one write for every
\* argument, close.
WrittenThenClosed(n) ==
  /\ Len(trace) >= n + 2
  /\ trace[1] = "mkstemp"
  /\ \A i \in 2..(n + 1) : trace[i] = "write"
  /\ trace[n + 2] = "close"

\* C17: in a call_pyc run the response file is created, then every
\* argument line is written, then the file is closed, and only then is the
\* compiler started, which finds the file closed and complete; the exit
\* code is handled only after the process has exited.
C17_StepOrder ==
  /\ \A i \in DOMAIN trace :
       /\ trace[i] = "mkstemp" => i = 1
       /\ trace[i] = "write" => trace[i - 1] \in { "mkstemp", "write" }
       /\ trace[i] = "close" => trace[i - 1] \in { "mkstemp", "write" }
       /\ trace[i] \in { "popen", "popen failed" } => trace[i - 1] = "close"
       /\ trace[i] = "exit" => trace[i - 1] = "popen"
       /\ trace[i] = "communicate" => trace[i - 1] = "exit"
       /\ trace[i] = "test exit code" => \E j \in 1..(i - 1) : trace[j] = "exit"
  /\ proc.state # "none"
       => /\ WrittenThenClosed(Len(call.args))
          /\ ~files[response_file[2]].open
          /\ Split(files[response_file[2]].content) = Append(call.args, "")
  /\ pc \in { "delete", "check" }
       => /\ WrittenThenClosed(Len(call.args))
          /\ \E j \in DOMAIN trace : trace[j] = "exit"

\* A finished run with two arguments that kept its response file.
C17_Witness ==
  /\ pc = "idle"
  /\ trace = << "mkstemp", "write", "write", "close", "popen", "exit", "communicate",
                "test exit code" >>

\* This step is the entry of a create_asm call.
CreateAsmStep == pc = "idle" /\ pc' = "write" /\ call'.via = "create_asm"

\* C19: create_asm runs check_compilability() itself exactly when
\* compilable_modules is empty at the call (seen at dirs_of_modules, which
\* the analysis sets to the default directories); when it is not empty the
\* result sets and dirs_of_modules stay as they are and the existing set is
\* what is compiled.  No step of any sequence of check_compilability and
\* create_asm calls takes an element out of builtin_modules,
\* compilable_modules or uncompilable_modules.
C19_AnalysisOnlyIfEmpty ==
  [][ /\ (CreateAsmStep /\ compilable_modules = {})
           => /\ call'.analysed
              /\ dirs_of_modules' = DefaultDirs
      /\ (CreateAsmStep /\ compilable_modules # {})
           => /\ ~call'.analysed
              /\ UNCHANGED analysisVars
              /\ { call'.args[i] : i \in (Len(call'.args) - Cardinality(compilable_modules)
                                             + 1)..Len(call'.args) }
                   = { PathStr(m) : m \in compilable_modules }
      /\ builtin_modules \subseteq builtin_modules'
      /\ compilable_modules \subseteq compilable_modules'
      /\ uncompilable_modules \subseteq uncompilable_modules' ]_vars

\* create_asm was called after a check_compilability with its own search
\* directory had found compilable modules: no analysis was run.
C19_Witness ==
  /\ pc = "write"
  /\ call.via = "create_asm"
  /\ ~call.analysed
  /\ compilable_modules # {}
  /\ dirs_of_modules = << "/proj" >>

(***************************************************************************)
(* Properties of the response file create_asm produces.                     *)
(***************************************************************************)
HasPrefix(l, prefix) ==
  Len(l) >= Len(prefix) /\ SubSeq(l, 1, Len(prefix)) = prefix

\* The place of a line in the response-file protocol; 8 is a path.
Kind(l) ==
  CASE HasPrefix(l, "/out:") -> 1
    [] HasPrefix(l, "/target:") -> 2
    [] HasPrefix(l, "/main:") -> 3
    [] HasPrefix(l, "/platform:") -> 4
    [] l = "/embed" -> 5
    [] l = "/standalone" -> 6
    [] l = "/mta" -> 7
    [] OTHER -> 8

\* create_asm has written and closed its response file.
AsmWritten == pc = "exec" /\ call.via = "create_asm"

\* The lines of the response file of the call in progress.
RespLines == ReadLines(files[response_file[2]].content)

HasKind(L, k) == \E i \in DOMAIN L : Kind(L[i]) = k

IsExe(o) == o.target_asm \in {"exe", "winexe"}

\* The output path without its extension, as a string.
OutBase(o) ==
  IF o.out = None THEN Cwd \o "/" \o paths_to_scripts[1].name
  ELSE (IF o.out.dir = "." THEN Cwd ELSE o.out.dir) \o "/" \o o.out.name

\* The path lines are the scripts in their order, then the compilable
\* modules, each once, in some order.
PathLines(L) ==
  LET first == Len(L) - Len(paths_to_scripts) - Cardinality(compilable_modules) + 1
  IN /\ first >= 2
     /\ \A i \in DOMAIN L : Kind(L[i]) = 8 <=> i >= first
     /\ \A i \in DOMAIN paths_to_scripts :
          L[first + i - 1] = PathStr(paths_to_scripts[i])
     /\ { L[i] : i \in (first + Len(paths_to_scripts))..Len(L) }
          = { PathStr(m) : m \in compilable_modules }

\* C12: the lines create_asm writes are in the order /out:, /target:,
\* /main:, /platform:, /embed, /standalone, /mta, the scripts in their
\* order, the compilable modules; /out:<output path without extension> is
\* the first line; /target: and /main:<first script> are there exactly for
\* exe and winexe; /platform: only for exe or winexe with x86 or x64; /mta
\* only for winexe with mta set.
C12_LineOrder ==
  AsmWritten
  => LET L == RespLines
         o == call.opts
     IN /\ L[1] = "/out:" \o OutBase(o)
        /\ \A i, j \in DOMAIN L :
             i < j => \/ Kind(L[i]) < Kind(L[j])
                      \/ Kind(L[i]) = 8 /\ Kind(L[j]) = 8
        /\ PathLines(L)
        /\ HasKind(L, 2) <=> IsExe(o)
        /\ HasKind(L, 3) <=> IsExe(o)
        /\ \A i \in DOMAIN L :
             /\ Kind(L[i]) = 2 => L[i] = "/target:" \o o.target_asm
             /\ Kind(L[i]) = 3 => L[i] = "/main:" \o PathStr(paths_to_scripts[1])
             /\ Kind(L[i]) = 4 => L[i] = "/platform:" \o o.target_platform
        /\ HasKind(L, 4) => IsExe(o) /\ o.target_platform \in {"x86", "x64"}
        /\ HasKind(L, 7) => o.target_asm = "winexe" /\ o.mta

\* A windowed executable with every option on, two scripts, two modules.
C12_Witness ==
  /\ AsmWritten
  /\ call.opts = Options(None, "winexe", "x64", TRUE, TRUE, TRUE)
  /\ Len(paths_to_scripts) = 2
  /\ Cardinality(compilable_modules) = 2
  /\ Len(RespLines) = 11

\* call_pyc has written and closed its response file.
RespClosed == pc = "exec"

\* C16 as stated: the file call_pyc wrote, read back and split on newline,
\* is exactly the argument list.
C16_SplitIsArgs ==
  RespClosed => Split(files[response_file[2]].content) = call.args

\* C16 as amended: the file call_pyc wrote, read back and split on newline,
\* is the argument list, in order and with repetitions, followed by one
\* empty string, the piece after the last newline.
C16_SplitIsArgsThenEmpty ==
  RespClosed => Split(files[response_file[2]].content) = Append(call.args, "")

\* A list with a flag-style token twice and a value with a space.
C16_Witness ==
  /\ RespClosed
  /\ call.args = << "/embed", "a b.py", "/embed" >>
  /\ Len(Split(files[response_file[2]].content)) = 4

\* The paths of the modules an analysis can find compilable, in the order
\* sorted() puts their strings in.
SortedModulePaths == << "/cwd/helper.py", "/ipy/Lib/os.py" >>

\* The place of a module path in sorted order.
SortIndex(l) == CHOOSE k \in DOMAIN SortedModulePaths : SortedModulePaths[k] = l

\* The lines after the scripts: the module paths as written.
ModuleLines(L) == SubSeq(L, Len(L) - Cardinality(compilable_modules) + 1, Len(L))

\* C13: in the response file create_asm writes, the compilable module
\* paths follow the scripts in sorted order (so that the same scripts,
\* options and compilable set always give the same file).
C13_ModulesSorted ==
  AsmWritten
  => LET M == ModuleLines(RespLines)
     IN \A i, j \in DOMAIN M : i < j => SortIndex(M[i]) < SortIndex(M[j])

\* C18: for the target dll, whatever embed, standalone, mta and
\* target_platform are, the response file has none of /target:, /main:,
\* /platform:, /embed, /standalone, /mta: it is the /out: line followed by
\* the script and module paths only.
C18_LibraryHasNoExeFlags ==
  (AsmWritten /\ call.opts.target_asm = "dll")
  => LET L == RespLines
     IN /\ Kind(L[1]) = 1
        /\ \A i \in DOMAIN L : i > 1 => Kind(L[i]) = 8
        /\ PathLines(L)

\* A library asked for with every executable option set.
C18_Witness ==
  /\ AsmWritten
  /\ call.opts = Options(Path(".", "my app", ".exe"), "dll", "x64", TRUE, TRUE, TRUE)
  /\ compilable_modules # {}
  /\ Len(RespLines) = 1 + Len(paths_to_scripts) + Cardinality(compilable_modules)

(***************************************************************************)
(* Properties of concurrent calls.                                          *)
(***************************************************************************)
\* The caller is between making its response file and being done with it.
Using(c) == cpc[c] \in { "write", "exec", "communicate", "delete" }

\* C14: with every caller on its own ModuleCompiler, in every interleaving:
\* no two calls that are using their response file have the same path; a
\* call passes the compiler the path of the file it made itself; and a
\* call removes only the file it made itself.
C14_ResponseFilesNotShared ==
  /\ \A a, b \in Callers :
       (a # b /\ Using(a) /\ Using(b))
       => cresp[ObjOf(a)][2] # cresp[ObjOf(b)][2]
  /\ \A c \in Callers :
       /\ clog[c].passed # <<>>
            => clog[c].passed = clog[c].made /\ clog[c].passed_owner = c
       /\ clog[c].removed_owner \in { "", c }

\* Both callers have started their compiler while the other's file was on
\* disk, and one has removed its file since.
C14_Witness ==
  /\ clog["t1"].passed # <<>>
  /\ clog["t2"].passed # <<>>
  /\ clog["t1"].removed_owner = "t1"
  /\ cpc["t2"] = "communicate"

(***************************************************************************)
(* Properties of runtime discovery and version matching.                    *)
(***************************************************************************)
\* What the host holds, stated on the host and not on a probe's outcome.
Validates(dir) ==
  /\ ExeAt(dir).launch
  /\ HashableVersion(Strip(ExeAt(dir).stdout)).ok

VersionOf(dir) == HashableVersion(Strip(ExeAt(dir).stdout)).val

KeyOf(dir, detailed) == IF detailed THEN VersionOf(dir) ELSE major_minor(VersionOf(dir))

Range(q) == { q[i] : i \in DOMAIN q }

RegUnavailable == ~winreg

RegNoKeyPath == winreg /\ \A i \in DOMAIN registry : ~registry[i].exists

FirstKey == CHOOSE i \in DOMAIN registry :
              registry[i].exists /\ \A j \in DOMAIN registry : registry[j].exists => i <= j

\* The install directories the registry probe enumerates.
RegCandidates ==
  IF winreg /\ \E i \in DOMAIN registry : registry[i].exists
  THEN registry[FirstKey].children
  ELSE <<>>

RegNothingValidates ==
  /\ winreg
  /\ \E i \in DOMAIN registry : registry[i].exists
  /\ \A d \in Range(RegCandidates) : ~Validates(d)

\* The directories the search-path probe enumerates.
EnvCandidates == SelectSeq(path_env, LAMBDA d : ExeAt(d).present /\ ExeAt(d).xok)

EnvNothingOnPath == EnvCandidates = <<>>

EnvNothingValidates == \A d \in Range(EnvCandidates) : ~Validates(d)

\* Strictly older, by (major, minor, patch) and then prerelease: a version
\* without a prerelease tag is newer than the same triple with one.
Older(a, b) ==
  \/ a.version[1] < b.version[1]
  \/ a.version[1] = b.version[1] /\ a.version[2] < b.version[2]
  \/ a.version[1] = b.version[1] /\ a.version[2] = b.version[2]
       /\ a.version[3] < b.version[3]
  \/ a.version = b.version /\ a.prerelease # <<>> /\ b.prerelease = <<>>

Greatest(S) == CHOOSE v \in S : \A w \in S : w = v \/ Older(w, v)

HostOf(d) == HashableVersion(d.host).val

\* The map search_ipy(detailed=True) hands to auto_detect on this host.
Discovered == search_ipy(REGKEYS, TRUE)

SameMinor(h, K) == { v \in K : v.version[1] = h.version[1] /\ v.version[2] = h.version[2] }

SameMajor(h, K) == { v \in K : v.version[1] = h.version[1] }

\* The version the tier policy names: exact, else newest of the same
\* major.minor, else newest of the same major.
TierPick(h, K) ==
  IF h \in K THEN h
  ELSE IF SameMinor(h, K) # {} THEN Greatest(SameMinor(h, K))
  ELSE Greatest(SameMajor(h, K))

\* C4: whenever auto_detect runs on a discovered (non-empty) map holding a
\* runtime of the host's major version, it returns the pick of the strict
\* tier order (exact, then newest same major.minor, then newest same major);
\* the pick is a key of the map and the returned path is that key's value.
C4_TierPriority ==
  (det.op = "auto_detect" /\ Discovered.ok
     /\ SameMajor(HostOf(det), DOMAIN Discovered.val) # {})
  => LET pick == TierPick(HostOf(det), DOMAIN Discovered.val)
     IN /\ det.out.ok
        /\ pick \in DOMAIN Discovered.val
        /\ det.out.val[1] = (IF det.detailed THEN pick ELSE major_minor(pick))
        /\ det.out.val[2] = Discovered.val[pick]

\* Host 2.7.0 with runtimes 2.7.3 and 2.6.9 discovered: 2.7.3 is returned.
C4_Witness ==
  /\ det.op = "auto_detect" /\ det.detailed
  /\ det.host = <<"2", ".", "7", ".", "0">>
  /\ Discovered.ok
  /\ DOMAIN Discovered.val = { VersionOf("dA"), VersionOf("dC") }
  /\ det.out.ok
  /\ det.out.val = << VersionOf("dA"), "dA" >>

\* C5: on a discovered map, auto_detect fails exactly when no discovered
\* runtime has the host's major version, the failure is the one raised by
\* the tier policy, and a returned runtime always has the host's major.
C5_FailsIffNoMajor ==
  (det.op = "auto_detect" /\ Discovered.ok)
  => /\ ~det.out.ok <=> SameMajor(HostOf(det), DOMAIN Discovered.val) = {}
     /\ ~det.out.ok =>
          det.out = Raise("IronPythonDetectionError",
                          "Could not find the optimum version of IronPython.")
     /\ det.out.ok =>
          /\ det.detailed => det.out.val[1].version[1] = HostOf(det).version[1]
          /\ ~det.detailed => det.out.val[1].mm[1] = HostOf(det).version[1]

\* Host 2.7.0 with only runtime 3.1.0 discovered: the call fails.
C5_Witness ==
  /\ det.op = "auto_detect"
  /\ det.host = <<"2", ".", "7", ".", "0">>
  /\ Discovered.ok
  /\ DOMAIN Discovered.val = { VersionOf("dD") }
  /\ ~det.out.ok

RegProbeFails == RegUnavailable \/ RegNoKeyPath \/ RegNothingValidates

EnvProbeFails == EnvNothingOnPath \/ EnvNothingValidates

\* C6: in search_ipy a probe that fails for a documented reason counts as
\* zero results: with the other probe's map non-empty that map is returned,
\* and search_ipy fails only when both probes yield nothing.
C6_ProbeFailureSwallowed ==
  det.op = "search_ipy"
  => /\ (RegProbeFails /\ ~EnvProbeFails)
          => det.out = Return(search_ipy_env(det.detailed).val)
     /\ (EnvProbeFails /\ ~RegProbeFails)
          => det.out = Return(search_ipy_reg(REGKEYS, det.detailed).val)
     /\ ~det.out.ok => (RegProbeFails /\ EnvProbeFails)

\* C7: the registry probe fails with the discovery error, and no other
\* error, when no candidate key path exists, when the registry module is
\* unavailable, or when no child's install directory validates.
C7_RegProbeRaisesDiscoveryError ==
  (det.op = "search_ipy_reg" /\ RegProbeFails)
  => (~det.out.ok /\ det.out.exc = "IronPythonDetectionError")

\* A probe's map as the merge sees it: empty when the probe failed.
ProbeMap(r) == IF r.ok THEN r.val ELSE EmptyDict

\* C8: the map search_ipy returns has the union of the two probes' keys,
\* and each key's directory is the registry probe's when the registry probe
\* reported the key, otherwise the search-path probe's.
C8_MergeRegistryWins ==
  (det.op = "search_ipy" /\ det.out.ok)
  => LET reg == ProbeMap(search_ipy_reg(REGKEYS, det.detailed))
         env == ProbeMap(search_ipy_env(det.detailed))
     IN /\ DOMAIN det.out.val = DOMAIN reg \cup DOMAIN env
        /\ \A k \in DOMAIN det.out.val :
             det.out.val[k] = (IF k \in DOMAIN reg THEN reg[k] ELSE env[k])

\* Both probes report key 2.7, from different directories: the registry's
\* directory is the one returned.
C8_Witness ==
  /\ det.op = "search_ipy" /\ ~det.detailed /\ det.out.ok
  /\ winreg /\ registry[1].exists /\ registry[1].children = <<"dA">>
  /\ path_env = <<"dB">>
  /\ det.out.val[major_minor(VersionOf("dA"))] = "dA"

\* The candidates a probe call enumerates, and whether it gets to enumerate.
Enumerated(d) ==
  IF d.op = "search_ipy_reg" THEN RegCandidates ELSE EnvCandidates

LastOfKey(cands, detailed, k) ==
  CHOOSE i \in DOMAIN cands :
    /\ Validates(cands[i])
    /\ KeyOf(cands[i], detailed) = k
    /\ \A j \in DOMAIN cands :
         (Validates(cands[j]) /\ KeyOf(cands[j], detailed) = k) => j <= i

\* C20: within one probe, when several candidates validate to the same key
\* (the same version in detailed mode, the same major.minor otherwise), the
\* probe's map holds one directory for that key and it is the directory of
\* the candidate enumerated last: a later candidate overwrites an earlier one.
C20_LastCandidateWins ==
  (det.op \in {"search_ipy_reg", "search_ipy_env"} /\ det.out.ok)
  => LET cands == Enumerated(det)
     IN \A k \in DOMAIN det.out.val :
          det.out.val[k] = cands[LastOfKey(cands, det.detailed, k)]

\* Two different directories validate to one key, in detailed mode (the same
\* version) or not (the same major.minor), and the second is the one kept.
C20_Witness ==
  /\ det.op \in {"search_ipy_reg", "search_ipy_env"}
  /\ det.out.ok
  /\ Len(Enumerated(det)) = 2
  /\ Enumerated(det)[1] = "dA"
  /\ Enumerated(det)[2] = (IF det.detailed THEN "dG" ELSE "dB")
  /\ DOMAIN det.out.val = { KeyOf("dA", det.detailed) }
  /\ det.out.val[KeyOf("dA", det.detailed)] = Enumerated(det)[2]

====
